---- MODULE Spec2Model ----
\* Model of src/lib.rs: CacheControlLayer / CacheControlService, the tower
\* middleware that sets a Cache-Control response header from the response
\* status, the request's Cache-Control header and a configured default.
EXTENDS Integers, Sequences, FiniteSets, TLC

VARIABLES
    default,    \* CacheControlService.default : Option<CacheControl>
    inner,      \* CacheControlService.inner : the handler instance in the slot
    innerState, \* readiness the slot's handler instance last reported
    nextId,     \* identity the next clone of the handler gets
    taken,      \* the handler instances handed to calls, in call order
    futures,    \* the futures returned by call() that have not completed
    out         \* what the latest operation returned to its caller

vars == <<default, inner, innerState, nextId, taken, futures, out>>

\* ---------------------------------------------------------------- bounds
\* Calls made through the Wrapper in one behaviour.
MaxCalls == 3

\* ------------------------------------------------------ program constants
FALLBACK_MAX_AGE == 5
MOVED_PERMANENTLY == 301
MOVED_MAX_AGE == 86400
OTHER_MAX_AGE == 1800

\* ------------------------------------------------------- Option<T> as a set
None == {}
Some(x) == {x}
Unwrap(o) == CHOOSE x \in o : TRUE
UnwrapOr(o, d) == IF o = None THEN d ELSE Unwrap(o)

\* ------------------------------------------- headers::CacheControl (value)
\* The fields of the directive the middleware reads or writes: max-age and
\* the flags no-cache, public, private.  The with_* builders set one field
\* and leave every other field as it is.
FlagOrder == <<"no-cache", "public", "private">>
Flags == {FlagOrder[i] : i \in 1..Len(FlagOrder)}

CacheControlNew == [max_age |-> None, flags |-> {}]
WithMaxAge(cc, secs) == [cc EXCEPT !.max_age = Some(secs)]
WithPublic(cc) == [cc EXCEPT !.flags = @ \cup {"public"}]
WithPrivate(cc) == [cc EXCEPT !.flags = @ \cup {"private"}]
WithNoCache(cc) == [cc EXCEPT !.flags = @ \cup {"no-cache"}]

\* ----------------------------------------- Cache-Control header on the wire
\* A header value is the list of its comma separated items; an item is a
\* name and the text after "=" (a list of characters, empty when absent).
Digits == <<"0", "1", "2", "3", "4", "5", "6", "7", "8", "9">>
DigitChars == {Digits[i] : i \in 1..Len(Digits)}
DigitVal(c) == (CHOOSE i \in 1..Len(Digits) : Digits[i] = c) - 1

RECURSIVE ParseSecs(_)
\* str::parse::<u64>: None unless every character is a digit.
ParseSecs(s) ==
    IF s = <<>> THEN None
    ELSE IF \E i \in 1..Len(s) : s[i] \notin DigitChars THEN None
    ELSE IF Len(s) = 1 THEN Some(DigitVal(s[1]))
    ELSE Some(10 * Unwrap(ParseSecs(SubSeq(s, 1, Len(s) - 1))) + DigitVal(s[Len(s)]))

RECURSIVE FormatSecs(_)
FormatSecs(n) ==
    IF n < 10 THEN <<Digits[n + 1]>>
    ELSE Append(FormatSecs(n \div 10), Digits[(n % 10) + 1])

Item(name, arg) == [name |-> name, arg |-> arg]

\* An item that cannot be parsed makes the whole header invalid; an item
\* that is not a known directive is skipped.
ItemInvalid(it) == it.name = "max-age" /\ it.arg # <<>> /\ ParseSecs(it.arg) = None

RECURSIVE DecodeItems(_, _)
DecodeItems(items, acc) ==
    IF items = <<>> THEN acc
    ELSE LET it == Head(items)
             nxt == IF it.name \in Flags /\ it.arg = <<>>
                        THEN [acc EXCEPT !.flags = @ \cup {it.name}]
                    ELSE IF it.name = "max-age" /\ it.arg # <<>>
                        THEN [acc EXCEPT !.max_age = ParseSecs(it.arg)]
                    ELSE acc
         IN DecodeItems(Tail(items), nxt)

\* HeaderMapExt::typed_get::<CacheControl>: None when the header is absent
\* and None when its value does not decode.
TypedGet(hdr) ==
    IF hdr = None THEN None
    ELSE LET items == Unwrap(hdr)
         IN IF \E i \in 1..Len(items) : ItemInvalid(items[i]) THEN None
            ELSE Some(DecodeItems(items, CacheControlNew))

RECURSIVE EncodeFlags(_, _)
EncodeFlags(cc, i) ==
    IF i > Len(FlagOrder) THEN <<>>
    ELSE (IF FlagOrder[i] \in cc.flags THEN <<Item(FlagOrder[i], <<>>)>> ELSE <<>>)
         \o EncodeFlags(cc, i + 1)

Encode(cc) ==
    EncodeFlags(cc, 1)
    \o (IF cc.max_age = None THEN <<>>
        ELSE <<Item("max-age", FormatSecs(Unwrap(cc.max_age)))>>)

\* HeaderMapExt::typed_insert: the header is set to the encoded value,
\* replacing whatever value it had.
TypedInsert(hdr, cc) == Some(Encode(cc))

\* ------------------------------------------------------- http::StatusCode
IsSuccess(s) == 300 > s /\ s >= 200
IsRedirection(s) == 400 > s /\ s >= 300
IsClientError(s) == 500 > s /\ s >= 400

\* ------------------------------------------ CacheControlService::call, parts
\* self.default.clone().unwrap_or(CacheControl::new().with_max_age(5 s))
EffectiveDefault(cfg) ==
    UnwrapOr(cfg, WithMaxAge(CacheControlNew, FALLBACK_MAX_AGE))

\* RequestHint without the comparison to CacheControl::new().
RequestHintKeepEmpty(reqHdr) == TypedGet(reqHdr)

\* The request's Cache-Control header, kept only when it decodes to a
\* directive other than CacheControl::new().
RequestHint(reqHdr) ==
    LET h == TypedGet(reqHdr)
    IN IF h # None /\ Unwrap(h) # CacheControlNew THEN h ELSE None

\* Decide with the request header taken on a client error.
DecideHintOnClientError(status, header, dflt) ==
    IF status = MOVED_PERMANENTLY
        THEN WithPublic(WithMaxAge(dflt, MOVED_MAX_AGE))
    ELSE IF IsSuccess(status) THEN UnwrapOr(header, dflt)
    ELSE IF IsRedirection(status) THEN WithPrivate(UnwrapOr(header, dflt))
    ELSE IF IsClientError(status) THEN WithPrivate(WithNoCache(UnwrapOr(header, dflt)))
    ELSE WithPublic(WithMaxAge(dflt, OTHER_MAX_AGE))

\* Decide with the redirection arm tried before the 301 arm.
DecideRedirectionFirst(status, header, dflt) ==
    IF IsSuccess(status) THEN UnwrapOr(header, dflt)
    ELSE IF IsRedirection(status) THEN WithPrivate(UnwrapOr(header, dflt))
    ELSE IF status = MOVED_PERMANENTLY
        THEN WithPublic(WithMaxAge(dflt, MOVED_MAX_AGE))
    ELSE IF IsClientError(status) THEN WithPrivate(WithNoCache(dflt))
    ELSE WithPublic(WithMaxAge(dflt, OTHER_MAX_AGE))

\* Decide with the request header taken in the last arm.
DecideHintOnOther(status, header, dflt) ==
    IF status = MOVED_PERMANENTLY
        THEN WithPublic(WithMaxAge(dflt, MOVED_MAX_AGE))
    ELSE IF IsSuccess(status) THEN UnwrapOr(header, dflt)
    ELSE IF IsRedirection(status) THEN WithPrivate(UnwrapOr(header, dflt))
    ELSE IF IsClientError(status) THEN WithPrivate(WithNoCache(dflt))
    ELSE WithPublic(WithMaxAge(UnwrapOr(header, dflt), OTHER_MAX_AGE))

\* Decide without with_private() in the redirection arm.
DecideNoPrivate(status, header, dflt) ==
    IF status = MOVED_PERMANENTLY
        THEN WithPublic(WithMaxAge(dflt, MOVED_MAX_AGE))
    ELSE IF IsSuccess(status) THEN UnwrapOr(header, dflt)
    ELSE IF IsRedirection(status) THEN UnwrapOr(header, dflt)
    ELSE IF IsClientError(status) THEN WithPrivate(WithNoCache(dflt))
    ELSE WithPublic(WithMaxAge(dflt, OTHER_MAX_AGE))

\* The match on response.status(); its arms are tried in order.
Decide(status, header, dflt) ==
    IF status = MOVED_PERMANENTLY
        THEN WithPublic(WithMaxAge(dflt, MOVED_MAX_AGE))
    ELSE IF IsSuccess(status) THEN UnwrapOr(header, dflt)
    ELSE IF IsRedirection(status) THEN WithPrivate(UnwrapOr(header, dflt))
    ELSE IF IsClientError(status) THEN WithPrivate(WithNoCache(dflt))
    ELSE WithPublic(WithMaxAge(dflt, OTHER_MAX_AGE))

\* What the inner handler's future resolves to.
Ok(status, cc) == [ok |-> TRUE, status |-> status, cc |-> cc, err |-> "-"]
Err(e) == [ok |-> FALSE, status |-> 0, cc |-> None, err |-> e]

\* Respond with a handler error answered by a response of the wrapper.
RespondSubstitute(res, header, dflt) ==
    IF ~res.ok THEN Ok(500, TypedInsert(None, dflt))
    ELSE IF TypedGet(res.cc) # None THEN res
    ELSE [res EXCEPT !.cc = TypedInsert(res.cc, Decide(res.status, header, dflt))]

\* Everything after `inner.call(req).await`: `?` returns the handler's
\* error, a response whose Cache-Control decodes is returned as it is, any
\* other response gets the header the match computes.
Respond(res, header, dflt) ==
    IF ~res.ok THEN res
    ELSE IF TypedGet(res.cc) # None THEN res
    ELSE [res EXCEPT !.cc = TypedInsert(res.cc, Decide(res.status, header, dflt))]

\* MemReplace with the call run on the slot's instance, which stays there.
MemReplaceShared(slot, clone) == [slot |-> slot, taken |-> slot]

\* MemReplace with the call run on the clone.
MemReplaceUseClone(slot, clone) == [slot |-> slot, taken |-> clone]

\* let clone = self.inner.clone(); mem::replace(&mut self.inner, clone):
\* the slot gets the clone, the call gets what the slot held.
MemReplace(slot, clone) == [slot |-> clone, taken |-> slot]

\* poll_ready returns what the slot's handler instance returns.
PollReadyResult(innerResult) == innerResult

\* ----------------------------------------------------------------- inputs
Chars(n) == FormatSecs(n)
Defaults ==
    { None,
      Some(WithMaxAge(CacheControlNew, 10)),
      Some(WithPrivate(WithNoCache(CacheControlNew))) }
Requests ==
    { None,
      Some(<<>>),
      Some(<<Item("x-ext", <<>>)>>),
      Some(<<Item("max-age", <<"a">>)>>),
      Some(<<Item("max-age", Chars(120))>>),
      Some(<<Item("max-age", Chars(120)), Item("public", <<>>)>>) }
HandlerHeaders ==
    { None,
      Some(<<>>),
      Some(<<Item("max-age", Chars(60)), Item("no-cache", <<>>)>>),
      Some(<<Item("max-age", <<"a">>)>>) }
Statuses ==
    {100, 199, 200, 204, 299, 300, 301, 302, 399, 400, 404, 499, 500, 503, 599, 600, 999}
Errors == {"E1", "E2"}
Results ==
    {Ok(s, h) : s \in Statuses, h \in HandlerHeaders} \cup {Err(e) : e \in Errors}
PollResults == {"pending", "ready", "failed"}

\* Inputs of the specification of overlapping calls.
FewRequests == {None, Some(<<Item("max-age", Chars(120))>>)}
FewResults ==
    {Ok(200, None), Ok(503, Some(<<Item("private", <<>>)>>))} \cup {Err(e) : e \in Errors}

\* ------------------------------------------------------------------ state
NoFuture == Err("-")
NoOut ==
    [op |-> "none", poll |-> "-", innerPoll |-> "-", req |-> None, header |-> None,
     dflt |-> CacheControlNew, invoked |-> 0, handler |-> NoFuture, result |-> NoFuture]

InFlight == DOMAIN futures

\* CacheControlLayer::default() / ::new(header), then Layer::layer(inner).
Init ==
    /\ default \in Defaults
    /\ inner = 0
    /\ innerState = "unpolled"
    /\ nextId = 1
    /\ taken = <<>>
    /\ futures = <<>>
    /\ out = NoOut

\* Service::poll_ready
PollReady ==
    \E r \in PollResults :
        /\ innerState' = r
        /\ out' = [NoOut EXCEPT !.op = "poll_ready", !.innerPoll = r,
                                !.poll = PollReadyResult(r)]
        /\ UNCHANGED <<default, inner, nextId, taken, futures>>

\* Service::call up to Box::pin: the future is built, nothing of its body
\* has run.
CallWith(req) ==
    LET sw == MemReplace(inner, nextId)
        fut == [inner |-> sw.taken,
                dflt |-> EffectiveDefault(default),
                req |-> req, stage |-> "created", header |-> None, invoked |-> 0]
    IN /\ nextId <= MaxCalls
       /\ futures' = (nextId :> fut) @@ futures
       /\ inner' = sw.slot
       /\ innerState' = IF sw.slot = inner THEN innerState ELSE "unpolled"
       /\ nextId' = nextId + 1
       /\ taken' = Append(taken, sw.taken)
       /\ out' = [NoOut EXCEPT !.op = "call",
                               !.innerPoll = IF sw.taken = inner THEN innerState
                                             ELSE "unpolled"]
       /\ UNCHANGED default

\* First poll of the future: the hint is read, the request is handed to
\* the call's handler instance, the future waits for the handler.
Forward(k) ==
    /\ k \in InFlight
    /\ futures[k].stage = "created"
    /\ futures' = [futures EXCEPT ![k].stage = "awaiting",
                                  ![k].header = RequestHint(futures[k].req),
                                  ![k].invoked = @ + 1]
    /\ out' = NoOut
    /\ UNCHANGED <<default, inner, innerState, nextId, taken>>

\* The handler's future resolves with res and the call's future completes.
Complete(k, res) ==
    /\ k \in InFlight
    /\ futures[k].stage = "awaiting"
    /\ out' = [NoOut EXCEPT !.op = "done", !.req = futures[k].req,
                            !.header = futures[k].header, !.dflt = futures[k].dflt,
                            !.invoked = futures[k].invoked, !.handler = res,
                            !.result = Respond(res, futures[k].header, futures[k].dflt)]
    /\ futures' = [j \in InFlight \ {k} |-> futures[j]]
    /\ UNCHANGED <<default, inner, innerState, nextId, taken>>

\* One caller that awaits each call before it makes the next.
Call == InFlight = {} /\ \E req \in Requests : CallWith(req)
Poll == \E k \in InFlight : Forward(k)
Resolve == \E k \in InFlight : \E res \in Results : Complete(k, res)
Next == PollReady \/ Call \/ Poll \/ Resolve
Spec == Init /\ [][Next]_vars

\* Callers that make calls while earlier calls are in flight.
CallAny == \E req \in FewRequests : CallWith(req)
ResolveAny == \E k \in InFlight : \E res \in FewResults : Complete(k, res)
NextConc == PollReady \/ CallAny \/ Poll \/ ResolveAny
SpecConc == Init /\ [][NextConc]_vars

\* ----------------------------------------------------------------- claims
\* A call has just completed.
Done == out.op = "done"
\* ... with a response of the handler that has no Cache-Control header.
Fresh == Done /\ out.handler.ok /\ out.handler.cc = None
\* The default the specification describes: the configured one, else max-age=5.
ClaimDefault == IF default = None THEN [max_age |-> {5}, flags |-> {}] ELSE Unwrap(default)
\* The directive the request carried, when it carried a non-empty one.
HintPresent == TypedGet(out.req) # None /\ TypedGet(out.req) # Some(CacheControlNew)
ClaimHintOrDefault == IF HintPresent THEN Unwrap(TypedGet(out.req)) ELSE ClaimDefault
Attached(cc) == out.result.ok /\ out.result.status = out.handler.status
                /\ out.result.cc = Some(Encode(cc))

\* C1: a response that already carries a Cache-Control header set by the
\* handler is returned with that header exactly as the handler set it,
\* whatever the status, the request hint and the default.
C1_HandlerHeaderKept ==
    (Done /\ out.handler.ok /\ out.handler.cc # None) => out.result = out.handler

\* C2: for a 1xx or 2xx status and no Cache-Control on the response, the
\* directive attached is the request hint when one is present, else the
\* effective default, unchanged.
C2_SuccessHintOrDefault ==
    (Fresh /\ out.handler.status >= 100 /\ out.handler.status < 300)
        => Attached(ClaimHintOrDefault)

\* C3 as stated: for a 4xx status and no Cache-Control on the response, the
\* directive attached is exactly `no-cache, private`.
C3_ClientErrorExactly ==
    (Fresh /\ out.handler.status >= 400 /\ out.handler.status < 500)
        => Attached([max_age |-> None, flags |-> {"no-cache", "private"}])

\* C3 amended: for a 4xx status and no Cache-Control on the response, the
\* directive attached is the effective default with no-cache and private
\* set and its other fields (its max-age) kept, whatever the request hint.
C3_ClientErrorDefaultNoCachePrivate ==
    (Fresh /\ out.handler.status >= 400 /\ out.handler.status < 500)
        => Attached([ClaimDefault EXCEPT !.flags = @ \cup {"no-cache", "private"}])

C3_Witness ==
    /\ Fresh /\ out.handler.status = 404 /\ HintPresent /\ default = None
    /\ out.result.cc = Some(<<Item("no-cache", <<>>), Item("private", <<>>),
                              Item("max-age", <<"5">>)>>)

\* C4 as stated: for status 301 and no Cache-Control on the response, the
\* directive attached is exactly `max-age=86400, public`, whatever the
\* other fields of the configured default.
C4_MovedExactly ==
    (Fresh /\ out.handler.status = 301)
        => Attached([max_age |-> {86400}, flags |-> {"public"}])

\* C4 amended: for status 301 and no Cache-Control on the response, the
\* directive attached is the effective default with max-age set to 86400
\* and public set, its other flags kept, whatever the request hint.
C4_MovedDefaultDayPublic ==
    (Fresh /\ out.handler.status = 301)
        => Attached([max_age |-> {86400}, flags |-> ClaimDefault.flags \cup {"public"}])

C4_Witness ==
    /\ Fresh /\ out.handler.status = 301 /\ HintPresent
    /\ "private" \in ClaimDefault.flags
    /\ out.result.cc = Some(<<Item("no-cache", <<>>), Item("public", <<>>),
                              Item("private", <<>>), Item("max-age", Chars(86400))>>)

\* C5: for a 5xx status, or a status outside 1xx..4xx, and no Cache-Control
\* on the response, the directive attached is the effective default with
\* max-age set to 1800 and public set; the request hint plays no part.
C5_OtherDefaultHalfHourPublic ==
    (Fresh /\ out.handler.status >= 500)
        => Attached([max_age |-> {1800}, flags |-> ClaimDefault.flags \cup {"public"}])

C5_Witness ==
    /\ Fresh /\ out.handler.status = 503 /\ HintPresent /\ default = None
    /\ out.result.cc = Some(<<Item("public", <<>>), Item("max-age", Chars(1800))>>)

C7_EmptyHintAbsent ==
    (Done /\ TypedGet(out.req) = Some(CacheControlNew))
        => /\ out.header = None
           /\ (Fresh /\ IsSuccess(out.handler.status)) => Attached(ClaimDefault)

C7_Witness ==
    /\ Fresh /\ out.handler.status = 204 /\ out.req = Some(<<>>)
    /\ out.result.cc = Some(Encode(ClaimDefault))

\* C8: a call's request is handed to the inner handler once and never a
\* second time, and when the handler fails the call's result is that
\* failure: no other response, no header.
C8_OnceAndFailurePropagated ==
    /\ \A k \in InFlight :
          futures[k].invoked = (IF futures[k].stage = "awaiting" THEN 1 ELSE 0)
    /\ Done => /\ out.invoked = 1
               /\ ~out.handler.ok => out.result = out.handler

C8_Witness == Done /\ ~out.handler.ok /\ out.result = Err("E2")

\* C9: no handler instance is handed to two calls, calls in flight hold
\* distinct instances, and the instance in the slot belongs to no call.
C9_OwnInstance ==
    /\ \A i, j \in 1..Len(taken) : i # j => taken[i] # taken[j]
    /\ \A k, l \in InFlight : k # l => futures[k].inner # futures[l].inner
    /\ \A i \in 1..Len(taken) : taken[i] # inner
    /\ \A k \in InFlight : futures[k].inner # inner

C9_Witness ==
    \E k, l \in InFlight :
        /\ k # l
        /\ futures[k].stage = "awaiting" /\ futures[l].stage = "awaiting"
        /\ out.op = "call"

\* C10: poll_ready returns what the instance in the slot returns; a call
\* runs on the instance that was in the slot (the polled one) when it was
\* made, and leaves the fresh, unpolled clone in the slot.
C10_PolledInstanceDispatched ==
    [][ /\ out'.op = "poll_ready" =>
            /\ out'.poll = out'.innerPoll
            /\ innerState' = out'.poll
            /\ inner' = inner
        /\ \A k \in DOMAIN futures' \ DOMAIN futures :
            /\ futures'[k].inner = inner
            /\ out'.innerPoll = innerState
            /\ inner' = nextId
            /\ inner' # inner
            /\ innerState' = "unpolled" ]_vars

C10_Witness ==
    /\ out.op = "call" /\ out.innerPoll = "ready"
    /\ innerState = "unpolled"
    /\ Len(taken) >= 2 /\ taken[Len(taken)] # inner

====
